---- MODULE Spec2Model ----
(***************************************************************************)
(* A model of gconda (src/gconda/gconda.py): the helper functions that     *)
(* probe, install and repair Conda, provision an environment and repoint   *)
(* the global python/python3/pip names, and run a command with a fallback  *)
(* into the active environment's bin directory.                            *)
(*                                                                         *)
(* The program is single threaded.  One run is one call of a public        *)
(* function; a step is the code up to and including its next external      *)
(* command.  Exit codes of external commands are chosen by the             *)
(* environment.  The search path, the three global names and the installed *)
(* conda binaries persist from one run to the next.                        *)
(*                                                                         *)
(* An executable that shutil.which finds can be started, and so can sudo   *)
(* and the running interpreter; a name that is not on the search path      *)
(* cannot, and subprocess then raises FileNotFoundError.                   *)
(***************************************************************************)
EXTENDS Naturals, Sequences, FiniteSets

VARIABLES
    pc,             \* position of the running call ("idle" before the first call)
    op,             \* the public function that was called
    stack,          \* return positions of the nested calls
    ret,            \* value returned by the last nested call
    result,         \* how the run ended: a return value or the exception raised
    log,            \* external commands issued and messages printed, this run
    condaAt,        \* the conda binaries that exist in directories of the search path
    fs,             \* the global names python, python3 and pip
    pathCmds,       \* library commands resolvable on the search path
    files,          \* executables that exist in environment bin directories
    environ,        \* the process variable CONDA_DEFAULT_ENV
    cmd_name,       \* run_library_command: cmd_name
    args,           \* run_library_command: *args
    python_version, \* setup_env: python_version
    env_name,       \* setup_env: env_name
    base_dir,       \* local: output of 'conda info --base'
    conda_path,     \* local of fix_conda: shutil.which("conda")
    python_path,    \* local of setup_env: shutil.which("python")
    idx,            \* setup_env: position in the list of commands
    atCall          \* condaAt and fs as they were when the run started

vars == <<pc, op, stack, ret, result, log, condaAt, fs, pathCmds, files, environ,
          cmd_name, args, python_version, env_name, base_dir, conda_path,
          python_path, idx, atCall>>

(***************************************************************************)
(* Bounds of the model.                                                    *)
(***************************************************************************)
MaxArgs == 2

(***************************************************************************)
(* Paths.  A path is a flag (absolute or not) and its components; a plain  *)
(* name is a relative path of one component, the empty string a relative   *)
(* path of none.                                                           *)
(***************************************************************************)
Path(a, p) == [abs |-> a, parts |-> p]

Name(s) == Path(FALSE, <<s>>)

NoPath == Path(FALSE, <<>>)

\* os.path.join(a, b): an absolute b discards a.
PathJoin2(a, b) == IF b.abs THEN b ELSE Path(a.abs, a.parts \o b.parts)

RECURSIVE PathJoin(_)
\* os.path.join(ps[1], ps[2], ...)
PathJoin(ps) ==
    IF Len(ps) = 1 THEN ps[1]
    ELSE PathJoin2(PathJoin(SubSeq(ps, 1, Len(ps) - 1)), ps[Len(ps)])

\* os.path.dirname(p)
Dirname(p) == Path(p.abs, SubSeq(p.parts, 1, Len(p.parts) - 1))

(***************************************************************************)
(* The environment the program runs in.                                    *)
(***************************************************************************)
ExitCodes == {0, 1}

\* Directory of the search path that holds the global python names.
PythonDir == Path(TRUE, <<"usr", "local", "bin">>)

LinkNames == {"python", "python3", "pip"}

BinPaths == {PathJoin2(PythonDir, Name(n)) : n \in LinkNames}

\* Places of a conda binary, in search path order.
CondaLocs == << Path(TRUE, <<"usr", "local", "bin", "conda">>),
                Path(TRUE, <<"opt", "conda", "bin", "conda">>) >>

CondaLocSet == {CondaLocs[i] : i \in 1..Len(CondaLocs)}

\* What 'conda info --base' prints.
CondaBase == Path(TRUE, <<"usr", "local">>)

File == [kind |-> "file", target |-> NoPath]

Absent == [kind |-> "absent", target |-> NoPath]

Link(t) == [kind |-> "link", target |-> t]

\* Inputs of setup_env: the default version, and names that conda accepts.
PyVersions == {"3.10"}

EnvNames == {Name("gconda"), Name("py37")}

\* Inputs of run_library_command.
CmdNames == {"gdown"}

ArgVals == {"--version", "-q"}

ArgSeqs == UNION {[1..n -> ArgVals] : n \in 0..MaxArgs}

\* Values of CONDA_DEFAULT_ENV: unset, empty, an environment name, and the
\* prefix of an environment activated by path.
Unset == [set |-> FALSE, val |-> NoPath]

EnvironVals == {Unset,
                [set |-> TRUE, val |-> NoPath],
                [set |-> TRUE, val |-> Name("myenv")],
                [set |-> TRUE, val |-> Path(TRUE, <<"opt", "prefix">>)]}

\* Executables that may exist: <c> in the bin directory of the environment,
\* and <c> in the directory of that name below <base>/envs.
CandFiles ==
    UNION {{Path(TRUE, (IF e.val.abs THEN <<>> ELSE CondaBase.parts \o <<"envs">>)
                        \o e.val.parts \o <<"bin", c>>),
            Path(TRUE, CondaBase.parts \o <<"envs">> \o e.val.parts \o <<"bin", c>>)}
           : <<e, c>> \in {x \in EnvironVals : x.val # NoPath} \X CmdNames}

(***************************************************************************)
(* The log of a run.                                                       *)
(***************************************************************************)
\* A command with its executable or operand, its link target, its arguments and
\* its exit code.
Ev(k, p, t, a, rc) == [kind |-> k, path |-> p, target |-> t, args |-> a, rc |-> rc]

Cmd(k, rc) == Ev(k, NoPath, NoPath, <<>>, rc)

Msg(m) == Ev("print", NoPath, NoPath, <<m>>, 0)

\* A read of the process environment.
Read(k) == Ev(k, NoPath, NoPath, <<>>, 0)

\* shutil.which("conda")
WhichConda ==
    IF \E i \in 1..Len(CondaLocs) : CondaLocs[i] \in condaAt
    THEN CondaLocs[CHOOSE i \in 1..Len(CondaLocs) :
                      /\ CondaLocs[i] \in condaAt
                      /\ \A j \in 1..(i - 1) : CondaLocs[j] \notin condaAt]
    ELSE NoPath

\* shutil.which(n) for one of the global names.  A link made by setup_env
\* points into an environment that 'conda create' made, so it resolves.
WhichBin(n) ==
    IF fs[PathJoin2(PythonDir, Name(n))].kind # "absent"
    THEN PathJoin2(PythonDir, Name(n))
    ELSE NoPath

\* sudo rm -f p, exit code 0
Removed(f, p) == IF p \in DOMAIN f THEN [f EXCEPT ![p] = Absent] ELSE f

\* sudo ln -sf t p, exit code 0
Linked(f, t, p) == IF p \in DOMAIN f THEN [f EXCEPT ![p] = Link(t)] ELSE f

(***************************************************************************)
(* Calls, returns and exceptions.  No function of the module catches what  *)
(* a nested call raises, so an exception ends the run.                     *)
(***************************************************************************)
Return(v) ==
    IF stack = <<>>
    THEN /\ pc' = "done"
         /\ result' = v
         /\ UNCHANGED <<stack, ret>>
    ELSE /\ pc' = Head(stack)
         /\ stack' = Tail(stack)
         /\ ret' = v
         /\ UNCHANGED result

Raise(e) ==
    /\ pc' = "done"
    /\ result' = e
    /\ stack' = <<>>
    /\ UNCHANGED ret

CallFn(f, back) ==
    /\ pc' = f
    /\ stack' = <<back>> \o stack
    /\ UNCHANGED <<ret, result>>

Goto(l) ==
    /\ pc' = l
    /\ UNCHANGED <<stack, ret, result>>

world == <<condaAt, fs>>

\* What no function of the module changes: the library commands on the search
\* path, the files of the environments and the process environment.
ambient == <<pathCmds, files, environ>>

inputs == <<op, ambient, cmd_name, args, python_version, env_name>>

locals == <<base_dir, conda_path, python_path, idx, atCall>>

Init ==
    /\ pc = "idle"
    /\ op = "none"
    /\ stack = <<>>
    /\ ret = "None"
    /\ result = "none"
    /\ log = <<>>
    /\ condaAt \in SUBSET CondaLocSet
    /\ fs \in [BinPaths -> {File, Absent}]
    /\ pathCmds \in SUBSET CmdNames
    /\ files \in SUBSET CandFiles
    /\ environ \in EnvironVals
    /\ cmd_name = "gdown"
    /\ args = <<>>
    /\ python_version = "3.10"
    /\ env_name = Name("gconda")
    /\ base_dir = NoPath
    /\ conda_path = NoPath
    /\ python_path = NoPath
    /\ idx = 0
    /\ atCall = <<condaAt, fs>>

(***************************************************************************)
(* A call of a public function starts a run.  The parameters of the other  *)
(* functions are left at their defaults.                                   *)
(***************************************************************************)
Begin(f) ==
    /\ pc \in {"idle", "done"}
    /\ pc' = f
    /\ op' = f
    /\ stack' = <<>>
    /\ ret' = "None"
    /\ result' = "none"
    /\ log' = <<>>
    /\ base_dir' = NoPath
    /\ conda_path' = NoPath
    /\ python_path' = NoPath
    /\ idx' = 0
    /\ atCall' = <<condaAt, fs>>
    /\ UNCHANGED <<world, ambient>>

NoCommandInputs ==
    /\ cmd_name' = "gdown"
    /\ args' = <<>>

NoEnvInputs ==
    /\ python_version' = "3.10"
    /\ env_name' = Name("gconda")

CallProbe ==
    \E f \in {"check_conda", "check_python", "install_conda", "fix_conda"} :
        /\ Begin(f)
        /\ NoCommandInputs
        /\ NoEnvInputs

CallSetupEnv ==
    \E v \in PyVersions, e \in EnvNames :
        /\ Begin("setup_env")
        /\ python_version' = v
        /\ env_name' = e
        /\ NoCommandInputs

CallRunLibraryCommand ==
    \E c \in CmdNames, a \in ArgSeqs :
        /\ Begin("run_library_command")
        /\ cmd_name' = c
        /\ args' = a
        /\ NoEnvInputs

(***************************************************************************)
(* check_conda                                                             *)
(***************************************************************************)
CheckConda ==
    /\ pc = "check_conda"
    /\ IF WhichConda # NoPath
       THEN \E rc \in ExitCodes :
                /\ log' = log \o <<Cmd("conda_version", rc),
                                   Msg(IF rc = 0 THEN "Conda is installed"
                                       ELSE "Conda is installed, version unknown")>>
                /\ Return("True")
       ELSE /\ log' = Append(log, Msg("Conda is not installed"))
            /\ Return("False")
    /\ UNCHANGED <<world, inputs, locals>>

(***************************************************************************)
(* check_python                                                            *)
(***************************************************************************)
\* shutil.which("python") or shutil.which("python3")
PythonFound ==
    IF WhichBin("python") # NoPath THEN WhichBin("python") ELSE WhichBin("python3")

CheckPython ==
    /\ pc = "check_python"
    /\ IF PythonFound # NoPath
       THEN IF WhichBin("python") = NoPath
            THEN \* ["python", "--version"] cannot be started
                 /\ log' = log
                 /\ Raise("FileNotFoundError")
            ELSE \E rc \in ExitCodes :
                    /\ log' = log \o <<Cmd("python_version", rc)>>
                                  \o (IF rc = 0 THEN <<Msg("Python is installed")>>
                                      ELSE <<>>)
                    /\ Return("True")
       ELSE /\ log' = Append(log, Msg("Python is not installed"))
            /\ Return("False")
    /\ UNCHANGED <<world, inputs, locals>>

(***************************************************************************)
(* install_conda                                                           *)
(***************************************************************************)
InstallConda ==
    /\ pc = "install_conda"
    /\ CallFn("check_conda", "ic_checked")
    /\ UNCHANGED <<log, world, inputs, locals>>

\* A presence check that is ignored.
NeverInstalled(r) == FALSE

\* if check_conda(): ... return
AlreadyInstalled(r) == r = "True"

InstallCondaPip ==
    /\ pc = "ic_checked"
    /\ IF AlreadyInstalled(ret)
       THEN /\ log' = Append(log, Msg("Conda is already installed"))
            /\ Return("None")
       ELSE \E rc \in ExitCodes :
                IF rc = 0
                THEN /\ log' = log \o <<Msg("Conda not found, installing condacolab"),
                                        Cmd("pip_install", rc)>>
                     /\ Goto("ic_helper")
                ELSE /\ log' = log \o <<Msg("Conda not found, installing condacolab"),
                                        Cmd("pip_install", rc),
                                        Msg("Error installing condacolab")>>
                     /\ Raise("CalledProcessError")
    /\ UNCHANGED <<world, inputs, locals>>

InstallCondaHelper ==
    /\ pc = "ic_helper"
    /\ \E rc \in ExitCodes :
        IF rc = 0
        THEN /\ log' = log \o <<Cmd("helper_install", rc),
                                Msg("Conda installation complete")>>
             /\ condaAt' \in {condaAt, condaAt \cup {CondaLocs[1]}}
             /\ Return("None")
        ELSE /\ log' = log \o <<Cmd("helper_install", rc),
                                Msg("Error during condacolab.install()")>>
             /\ condaAt' = condaAt
             /\ Raise("Exception")
    /\ UNCHANGED <<fs, inputs, locals>>

(***************************************************************************)
(* fix_conda                                                               *)
(***************************************************************************)
\* A functional check that always counts as failed.
AlwaysFailed(rc) == TRUE

\* subprocess.run(..., check=True) raises CalledProcessError
CheckFailed(rc) == rc # 0

FixConda ==
    /\ pc = "fix_conda"
    /\ conda_path' = WhichConda
    /\ IF WhichConda = NoPath
       THEN /\ log' = Append(log, Msg("Conda not found, installing"))
            /\ CallFn("install_conda", "fc_installed")
       ELSE \E rc \in ExitCodes :
                IF CheckFailed(rc)
                THEN /\ log' = log \o <<Msg("Conda found"), Cmd("conda_version", rc),
                                        Msg("Conda is not functioning properly")>>
                     /\ Goto("fc_remove")
                ELSE /\ log' = log \o <<Msg("Conda found"), Cmd("conda_version", rc),
                                        Msg("Conda is working properly")>>
                     /\ Return("None")
    /\ UNCHANGED <<world, inputs, base_dir, python_path, idx, atCall>>

FixCondaInstalled ==
    /\ pc = "fc_installed"
    /\ Return("None")
    /\ UNCHANGED <<log, world, inputs, locals>>

FixCondaRemove ==
    /\ pc = "fc_remove"
    /\ \E rc \in ExitCodes :
        IF rc = 0
        THEN /\ log' = log \o <<Msg("Removing the problematic Conda"),
                                Ev("sudo_rm", conda_path, NoPath, <<>>, rc),
                                Msg("Reinstalling Conda")>>
             /\ condaAt' = condaAt \ {conda_path}
             /\ CallFn("install_conda", "fc_verify")
        ELSE /\ log' = log \o <<Msg("Removing the problematic Conda"),
                                Ev("sudo_rm", conda_path, NoPath, <<>>, rc)>>
             /\ condaAt' = condaAt
             /\ Raise("CalledProcessError")
    /\ UNCHANGED <<fs, inputs, locals>>

FixCondaVerify ==
    /\ pc = "fc_verify"
    /\ IF WhichConda = NoPath
       THEN \* ["conda", "--version"] cannot be started
            /\ log' = log
            /\ Raise("FileNotFoundError")
       ELSE \E rc \in ExitCodes :
                /\ log' = log \o <<Cmd("conda_version", rc),
                                   Msg(IF rc = 0 THEN "Conda has been repaired"
                                       ELSE "Conda is still not functioning")>>
                /\ Return("None")
    /\ UNCHANGED <<world, inputs, locals>>

(***************************************************************************)
(* setup_env                                                               *)
(***************************************************************************)
SetupEnv ==
    /\ pc = "setup_env"
    /\ CallFn("check_conda", "se_checked")
    /\ UNCHANGED <<log, world, inputs, locals>>

SetupEnvEnsureConda ==
    /\ pc = "se_checked"
    /\ IF ret = "False"
       THEN /\ log' = Append(log, Msg("Conda is not installed, calling install_conda"))
            /\ CallFn("install_conda", "se_create")
       ELSE /\ log' = log
            /\ Goto("se_create")
    /\ UNCHANGED <<world, inputs, locals>>

\* A creation whose exit code is not looked at.
CreateAlwaysOk(rc) == TRUE

\* result.returncode != 0 is the failure of 'conda create'
CreateOk(rc) == rc = 0

SetupEnvCreate ==
    /\ pc = "se_create"
    /\ IF WhichConda = NoPath
       THEN \* ["conda", "create", ...] cannot be started
            /\ log' = Append(log, Msg("Creating new Conda environment"))
            /\ Raise("FileNotFoundError")
       ELSE \E rc \in ExitCodes :
                IF CreateOk(rc)
                THEN /\ log' = log \o <<Msg("Creating new Conda environment"),
                                        Ev("conda_create", env_name, NoPath,
                                           <<python_version>>, rc),
                                        Msg("Environment created")>>
                     /\ Goto("se_base")
                ELSE /\ log' = log \o <<Msg("Creating new Conda environment"),
                                        Ev("conda_create", env_name, NoPath,
                                           <<python_version>>, rc),
                                        Msg("Error creating Conda environment")>>
                     /\ Raise("RuntimeError")
    /\ UNCHANGED <<world, inputs, locals>>

SetupEnvBase ==
    /\ pc = "se_base"
    /\ IF WhichConda = NoPath
       THEN \* ["conda", "info", "--base"] cannot be started
            /\ log' = log
            /\ Raise("FileNotFoundError")
            /\ UNCHANGED locals
       ELSE \E rc \in ExitCodes :
                IF rc # 0
                THEN /\ log' = log \o <<Cmd("conda_info_base", rc),
                                        Msg("Unable to determine Conda base directory")>>
                     /\ Raise("CalledProcessError")
                     /\ UNCHANGED locals
                ELSE /\ base_dir' = CondaBase
                     /\ python_path' = WhichBin("python")
                     /\ IF WhichBin("python") = NoPath
                        THEN /\ log' = Append(log, Cmd("conda_info_base", rc))
                             /\ Raise("EnvironmentError")
                             /\ idx' = idx
                        ELSE /\ log' = log \o <<Cmd("conda_info_base", rc),
                                                Msg("Updating symbolic links")>>
                             /\ idx' = 1
                             /\ Goto("se_links")
                     /\ UNCHANGED <<conda_path, atCall>>
    /\ UNCHANGED <<world, inputs>>

\* new_python and new_pip
NewPython == PathJoin(<<base_dir, Name("envs"), env_name, Name("bin"), Name("python3")>>)

NewPip == PathJoin(<<base_dir, Name("envs"), env_name, Name("bin"), Name("pip")>>)

\* The list with 'ln python' issued before 'rm pip'.
CommandsSwapped ==
    LET python_dir == Dirname(python_path)
    IN  << Ev("sudo_rm", python_path, NoPath, <<>>, 0),
           Ev("sudo_rm", PathJoin2(python_dir, Name("python3")), NoPath, <<>>, 0),
           Ev("sudo_ln", python_path, NewPython, <<>>, 0),
           Ev("sudo_rm", PathJoin2(python_dir, Name("pip")), NoPath, <<>>, 0),
           Ev("sudo_ln", PathJoin2(python_dir, Name("python3")), NewPython, <<>>, 0),
           Ev("sudo_ln", PathJoin2(python_dir, Name("pip")), NewPip, <<>>, 0) >>

\* the list 'commands'
Commands ==
    LET python_dir == Dirname(python_path)
    IN  << Ev("sudo_rm", python_path, NoPath, <<>>, 0),
           Ev("sudo_rm", PathJoin2(python_dir, Name("python3")), NoPath, <<>>, 0),
           Ev("sudo_rm", PathJoin2(python_dir, Name("pip")), NoPath, <<>>, 0),
           Ev("sudo_ln", python_path, NewPython, <<>>, 0),
           Ev("sudo_ln", PathJoin2(python_dir, Name("python3")), NewPython, <<>>, 0),
           Ev("sudo_ln", PathJoin2(python_dir, Name("pip")), NewPip, <<>>, 0) >>

\* subprocess.run(cmd): the command with the exit code it ended with
Ran(c, rc) == [c EXCEPT !.rc = rc]

\* the effect of a command of the list that exits with 0
Effect(f, c) ==
    IF c.kind = "sudo_rm" THEN Removed(f, c.path) ELSE Linked(f, c.target, c.path)

\* A loop that goes on after a failed command.
CommandNeverFailed(rc) == FALSE

\* res.returncode != 0 ends the loop with RuntimeError
CommandFailed(rc) == rc # 0

SetupEnvLink ==
    /\ pc = "se_links"
    /\ \E rc \in ExitCodes :
        /\ fs' = IF rc = 0 THEN Effect(fs, Commands[idx]) ELSE fs
        /\ IF CommandFailed(rc)
           THEN /\ log' = log \o <<Msg("Executing command"), Ran(Commands[idx], rc),
                                   Msg("Error executing command")>>
                /\ idx' = idx
                /\ Raise("RuntimeError")
           ELSE /\ log' = log \o <<Msg("Executing command"), Ran(Commands[idx], rc)>>
                /\ IF idx < Len(Commands)
                   THEN /\ idx' = idx + 1
                        /\ Goto("se_links")
                   ELSE /\ idx' = idx
                        /\ Goto("se_verify")
    /\ UNCHANGED <<condaAt, inputs, base_dir, conda_path, python_path, atCall>>

SetupEnvVerify ==
    /\ pc = "se_verify"
    /\ IF WhichBin("python") = NoPath
       THEN \* ["python", "--version"] cannot be started
            /\ log' = log \o <<Msg("Symbolic links updated")>>
            /\ Raise("FileNotFoundError")
       ELSE \E rc \in ExitCodes, rc2 \in ExitCodes :
            IF WhichBin("pip") = NoPath
            THEN \* ["pip", "--version"] cannot be started
                 /\ log' = log \o <<Msg("Symbolic links updated"),
                                    Cmd("python_version", rc)>>
                 /\ Raise("FileNotFoundError")
            ELSE \* the exit codes are not looked at
                 /\ log' = log \o <<Msg("Symbolic links updated"),
                                    Cmd("python_version", rc), Cmd("pip_version", rc2),
                                    Msg("Python environment switched")>>
                 /\ Return("None")
    /\ UNCHANGED <<world, inputs, locals>>

(***************************************************************************)
(* run_library_command                                                     *)
(***************************************************************************)
\* The command without its arguments.
FullCmdNoArgs(c, a) == Ev("exec", Name(c), NoPath, <<>>, 0)

\* full_cmd = [cmd_name] + list(args)
FullCmd(c, a) == Ev("exec", Name(c), NoPath, a, 0)

RunLibraryDirect ==
    /\ pc = "run_library_command"
    /\ cmd_name \in pathCmds
    /\ \E rc \in ExitCodes :
        \* the exit code is not looked at
        /\ log' = log \o <<Msg("Attempting to run command"),
                           Ran(FullCmd(cmd_name, args), rc)>>
        /\ Return("None")
    /\ UNCHANGED <<world, inputs, locals>>

RunLibraryBase ==
    /\ pc = "run_library_command"
    /\ cmd_name \notin pathCmds
    /\ IF WhichConda = NoPath
       THEN \* ["conda", "info", "--base"] cannot be started
            /\ log' = Append(log, Msg("Attempting to run command"))
            /\ base_dir' = base_dir
            /\ Raise("FileNotFoundError")
       ELSE \E rc \in ExitCodes :
                IF rc # 0
                THEN /\ log' = log \o <<Msg("Attempting to run command"),
                                        Cmd("conda_info_base", rc),
                                        Msg("Unable to determine Conda base directory")>>
                     /\ base_dir' = base_dir
                     /\ Raise("CalledProcessError")
                ELSE /\ log' = log \o <<Msg("Attempting to run command"),
                                        Cmd("conda_info_base", rc)>>
                     /\ base_dir' = CondaBase
                     /\ Goto("rl_resolve")
    /\ UNCHANGED <<world, inputs, conda_path, python_path, idx, atCall>>

\* A test that lets the empty string through.
OnlyUnset(e) == ~e.set

\* not current_env
NoCurrentEnv(e) == ~e.set \/ e.val = NoPath

\* The path without the bin directory.
CmdPathNoBin(base, e, c) == PathJoin(<<base, Name("envs"), e.val, Name(c)>>)

\* cmd_path
CmdPath(base, e, c) == PathJoin(<<base, Name("envs"), e.val, Name("bin"), Name(c)>>)

\* [cmd_path] + list(args)
EnvCmd(p, a) == Ev("exec", p, NoPath, a, 0)

RunLibraryResolve ==
    /\ pc = "rl_resolve"
    /\ IF NoCurrentEnv(environ)
       THEN /\ log' = log \o <<Read("getenv"),
                               Msg("Current Conda environment could not be determined")>>
            /\ Raise("EnvironmentError")
       ELSE LET cmd_path == CmdPath(base_dir, environ, cmd_name)
            IN  IF cmd_path \in files
                THEN \E rc \in ExitCodes :
                        \* the exit code is not looked at
                        /\ log' = log \o <<Read("getenv"),
                                           Ev("exists", cmd_path, NoPath, <<>>, 0),
                                           Msg("Running command from"),
                                           Ran(EnvCmd(cmd_path, args), rc)>>
                        /\ Return("None")
                ELSE /\ log' = log \o <<Read("getenv"),
                                        Ev("exists", cmd_path, NoPath, <<>>, 0),
                                        Msg("Command not found in environment")>>
                     /\ Raise("FileNotFoundError")
    /\ UNCHANGED <<world, inputs, locals>>

Next ==
    \/ CallProbe
    \/ CallSetupEnv
    \/ CallRunLibraryCommand
    \/ CheckConda
    \/ CheckPython
    \/ InstallConda
    \/ InstallCondaPip
    \/ InstallCondaHelper
    \/ FixConda
    \/ FixCondaInstalled
    \/ FixCondaRemove
    \/ FixCondaVerify
    \/ SetupEnv
    \/ SetupEnvEnsureConda
    \/ SetupEnvCreate
    \/ SetupEnvBase
    \/ SetupEnvLink
    \/ SetupEnvVerify
    \/ RunLibraryDirect
    \/ RunLibraryBase
    \/ RunLibraryResolve

Spec == Init /\ [][Next]_vars

(***************************************************************************)
(* What a run shows: its log without the printed messages, and the         *)
(* commands on the three global names.                                     *)
(***************************************************************************)
CmdLog == SelectSeq(log, LAMBDA e : e.kind # "print")

OfKind(k) == SelectSeq(log, LAMBDA e : e.kind = k)

LinkCmds == SelectSeq(log, LAMBDA e : e.kind \in {"sudo_rm", "sudo_ln"})

Printed(m) == \E i \in 1..Len(log) : log[i].kind = "print" /\ log[i].args = <<m>>

Succeeded(k) == \E i \in 1..Len(log) : log[i].kind = k /\ log[i].rc = 0

Failed(k) == \E i \in 1..Len(log) : log[i].kind = k /\ log[i].rc # 0

GlobalName(n) == Path(TRUE, <<"usr", "local", "bin", n>>)

\* <base_dir>/envs/<e>/bin/<n>, written out
InEnvBin(e, n) == Path(base_dir.abs, base_dir.parts \o <<"envs">> \o e.parts \o <<"bin", n>>)

\* The k-th of the six commands of setup_env.
Expected(k) ==
    LET names == <<"python", "python3", "pip">>
        targets == <<"python3", "python3", "pip">>
    IN  IF k <= 3
        THEN [kind |-> "sudo_rm", path |-> GlobalName(names[k]), target |-> NoPath]
        ELSE [kind |-> "sudo_ln", path |-> GlobalName(names[k - 3]),
              target |-> InEnvBin(env_name, targets[k - 3])]

\* A global name after the first n of the six commands have succeeded.
After(n, j) ==
    LET names == <<"python", "python3", "pip">>
    IN  IF n >= j + 3 THEN Link(Expected(j + 3).target)
        ELSE IF n >= j THEN Absent
        ELSE atCall[2][GlobalName(names[j])]

(***************************************************************************)
(* C1: in a run of setup_env, when 'conda create' exits non-zero the run   *)
(* ends at once with RuntimeError, and as long as creation has not exited  *)
(* zero, the base directory is not resolved or python is not located, no   *)
(* rm or ln command has been issued and the global names are as they were  *)
(* when the run started.                                                   *)
(***************************************************************************)
C1_NoLinkUnlessCreated ==
    op = "setup_env" =>
        /\ Failed("conda_create") =>
              /\ pc = "done"
              /\ result = "RuntimeError"
              /\ LinkCmds = <<>>
              /\ fs = atCall[2]
        /\ (~Succeeded("conda_create") \/ ~Succeeded("conda_info_base")
               \/ python_path = NoPath) =>
              /\ LinkCmds = <<>>
              /\ fs = atCall[2]

C1_Witness ==
    /\ op = "setup_env"
    /\ pc = "done"
    /\ result = "RuntimeError"
    /\ Failed("conda_create")
    /\ WhichBin("python") # NoPath

(***************************************************************************)
(* C2: in a run of setup_env the rm and ln commands issued are a prefix of *)
(* rm python, rm python3, rm pip, ln python, ln python3, ln pip; only the  *)
(* last one issued can have failed, its failure ends the run with          *)
(* RuntimeError, and the global names are exactly what the commands before *)
(* it made of them.                                                        *)
(***************************************************************************)
C2_PrefixNoRollback ==
    op = "setup_env" =>
        LET n == Len(LinkCmds)
            done == Cardinality({i \in 1..n : LinkCmds[i].rc = 0})
        IN  /\ n <= 6
            /\ \A i \in 1..n :
                  /\ LinkCmds[i].kind = Expected(i).kind
                  /\ LinkCmds[i].path = Expected(i).path
                  /\ LinkCmds[i].target = Expected(i).target
                  /\ i < n => LinkCmds[i].rc = 0
            /\ (n > 0 /\ LinkCmds[n].rc # 0) =>
                  /\ pc = "done"
                  /\ result = "RuntimeError"
            /\ \A j \in 1..3 :
                  fs[GlobalName(<<"python", "python3", "pip">>[j])] = After(done, j)

C2_Witness ==
    /\ op = "setup_env"
    /\ pc = "done"
    /\ result = "RuntimeError"
    /\ Len(LinkCmds) = 5
    /\ fs[GlobalName("python")].kind = "link"
    /\ fs[GlobalName("python3")] = Absent
    /\ fs[GlobalName("pip")] = Absent

(***************************************************************************)
(* C3: when setup_env returns normally, all six commands were issued and   *)
(* exited zero, and python, python3 and pip are symbolic links to python3, *)
(* python3 and pip of <base_dir>/envs/<env_name>/bin.                      *)
(***************************************************************************)
C3_ReturnMeansRelinked ==
    (op = "setup_env" /\ pc = "done" /\ result = "None") =>
        /\ Len(LinkCmds) = 6
        /\ \A i \in 1..Len(LinkCmds) : LinkCmds[i].rc = 0
        /\ base_dir = Path(TRUE, <<"usr", "local">>)
        /\ fs[GlobalName("python")] = Link(InEnvBin(env_name, "python3"))
        /\ fs[GlobalName("python3")] = Link(InEnvBin(env_name, "python3"))
        /\ fs[GlobalName("pip")] = Link(InEnvBin(env_name, "pip"))

C3_Witness ==
    /\ op = "setup_env"
    /\ pc = "done"
    /\ result = "None"
    /\ atCall[2][GlobalName("python")].kind = "link"
    /\ atCall[2][GlobalName("python")] # fs[GlobalName("python")]
    /\ atCall[2][GlobalName("pip")] = Absent

(***************************************************************************)
(* C4: once run_library_command has acted on a cmd_name that is on the     *)
(* search path, the run has returned and its only command is cmd_name with *)
(* the arguments in their order: CONDA_DEFAULT_ENV was not read, 'conda    *)
(* info --base' was not run and no existence check was made.               *)
(***************************************************************************)
C4_DirectRunOnly ==
    (op = "run_library_command" /\ cmd_name \in pathCmds
        /\ pc # "run_library_command") =>
        /\ pc = "done"
        /\ result = "None"
        /\ Len(CmdLog) = 1
        /\ CmdLog[1].kind = "exec"
        /\ CmdLog[1].path = Path(FALSE, <<cmd_name>>)
        /\ CmdLog[1].args = args

C4_Witness ==
    /\ op = "run_library_command"
    /\ pc = "done"
    /\ cmd_name \in pathCmds
    /\ environ.set
    /\ Len(args) = 2
    /\ args[1] # args[2]
    /\ OfKind("exec") # <<>>

\* CONDA_DEFAULT_ENV is unset or empty.
EnvUnsetOrEmpty == ~environ.set \/ (~environ.val.abs /\ environ.val.parts = <<>>)

\* The "resource not found" class: EnvironmentError is OSError, and
\* FileNotFoundError is one of its subclasses.
OSErrors == {"EnvironmentError", "FileNotFoundError"}

(***************************************************************************)
(* C5, as stated: with cmd_name off the search path and CONDA_DEFAULT_ENV  *)
(* unset or empty, the run ends with an error of the OSError class, with   *)
(* no existence check and no command executed, whatever the outcome of     *)
(* 'conda info --base'.                                                    *)
(***************************************************************************)
C5_Original ==
    (op = "run_library_command" /\ cmd_name \notin pathCmds /\ EnvUnsetOrEmpty) =>
        /\ OfKind("exists") = <<>>
        /\ OfKind("exec") = <<>>
        /\ pc = "done" => result \in OSErrors

(***************************************************************************)
(* C5, amended: with cmd_name off the search path and CONDA_DEFAULT_ENV    *)
(* unset or empty, no existence check is made and no command is executed;  *)
(* the run ends with CalledProcessError when 'conda info --base' exits     *)
(* non-zero, with FileNotFoundError when conda cannot be started, and with *)
(* EnvironmentError when the query exits zero.                             *)
(***************************************************************************)
C5_Amended ==
    (op = "run_library_command" /\ cmd_name \notin pathCmds /\ EnvUnsetOrEmpty) =>
        /\ OfKind("exists") = <<>>
        /\ OfKind("exec") = <<>>
        /\ pc = "done" =>
              /\ Failed("conda_info_base") => result = "CalledProcessError"
              /\ Succeeded("conda_info_base") =>
                    /\ result = "EnvironmentError"
                    /\ OfKind("getenv") # <<>>
              /\ OfKind("conda_info_base") = <<>> => result = "FileNotFoundError"

C5_Witness ==
    /\ op = "run_library_command"
    /\ pc = "done"
    /\ cmd_name \notin pathCmds
    /\ environ.set
    /\ EnvUnsetOrEmpty
    /\ Succeeded("conda_info_base")
    /\ result = "EnvironmentError"
    /\ files # {}

\* The precondition of C6 with the base directory resolved.
C6_Case ==
    /\ op = "run_library_command"
    /\ pc = "done"
    /\ cmd_name \notin pathCmds
    /\ ~EnvUnsetOrEmpty
    /\ Succeeded("conda_info_base")

\* What C6 says of the path p.
C6_Outcome(p) ==
    /\ p \in files =>
          /\ result = "None"
          /\ Len(OfKind("exec")) = 1
          /\ OfKind("exec")[1].path = p
          /\ OfKind("exec")[1].args = args
    /\ p \notin files =>
          /\ result = "FileNotFoundError"
          /\ OfKind("exec") = <<>>

(***************************************************************************)
(* C6, as stated: with cmd_name off the search path and CONDA_DEFAULT_ENV  *)
(* set to E, if <base_dir>/envs/E/bin/<cmd_name> exists that path is       *)
(* executed once with the arguments in their order, and if not             *)
(* FileNotFoundError is raised and nothing is executed.                    *)
(***************************************************************************)
C6_Original == C6_Case => C6_Outcome(InEnvBin(environ.val, cmd_name))

(***************************************************************************)
(* C6, amended: the path is os.path.join(base_dir, "envs", E, "bin",       *)
(* cmd_name), which is <base_dir>/envs/E/bin/<cmd_name> for a relative E   *)
(* and E/bin/<cmd_name> for an absolute E; when the base directory query   *)
(* fails its error ends the run and nothing is checked or executed.        *)
(***************************************************************************)
C6_Amended ==
    /\ C6_Case =>
          LET p == IF environ.val.abs
                   THEN Path(TRUE, environ.val.parts \o <<"bin", cmd_name>>)
                   ELSE InEnvBin(environ.val, cmd_name)
          IN  /\ Len(OfKind("exists")) = 1
              /\ OfKind("exists")[1].path = p
              /\ C6_Outcome(p)
    /\ (op = "run_library_command" /\ pc = "done" /\ cmd_name \notin pathCmds
           /\ ~EnvUnsetOrEmpty /\ ~Succeeded("conda_info_base")) =>
          /\ result \in {"CalledProcessError", "FileNotFoundError"}
          /\ OfKind("exists") = <<>>
          /\ OfKind("exec") = <<>>

C6_Witness ==
    /\ C6_Case
    /\ environ.val.abs
    /\ result = "None"
    /\ Len(args) = 2
    /\ args[1] # args[2]
    /\ InEnvBin(environ.val, cmd_name) \notin files

(***************************************************************************)
(* C7: check_conda and check_python never raise; each returns True exactly *)
(* when its executable is on the search path (for check_python, python or  *)
(* python3), whatever the exit code of the version query, and False        *)
(* otherwise.                                                              *)
(***************************************************************************)
C7_ProbesNeverRaise ==
    /\ (op = "check_conda" /\ pc = "done") =>
          /\ result \in {"True", "False"}
          /\ result = "True" <=> condaAt # {}
    /\ (op = "check_python" /\ pc = "done") =>
          /\ result \in {"True", "False"}
          /\ result = "True" <=> (\/ fs[GlobalName("python")] # Absent
                                  \/ fs[GlobalName("python3")] # Absent)

(***************************************************************************)
(* C8: a run of install_conda with conda present issues neither the pip    *)
(* installation nor the helper's install and returns; with conda absent it *)
(* runs the pip installation, then the helper's install only if pip exited *)
(* zero, and a failure of either is printed and ends the run with the      *)
(* error.  In every run the helper's install directly follows a pip        *)
(* installation that exited zero.                                          *)
(***************************************************************************)
C8_InstallConda ==
    /\ \A i \in 1..Len(CmdLog) :
          CmdLog[i].kind = "helper_install" =>
              /\ i > 1
              /\ CmdLog[i - 1].kind = "pip_install"
              /\ CmdLog[i - 1].rc = 0
    /\ op = "install_conda" =>
          IF atCall[1] # {}
          THEN /\ OfKind("pip_install") = <<>>
               /\ OfKind("helper_install") = <<>>
               /\ pc = "done" => result = "None"
          ELSE pc = "done" =>
               /\ Len(OfKind("pip_install")) = 1
               /\ Failed("pip_install") =>
                     /\ OfKind("helper_install") = <<>>
                     /\ Printed("Error installing condacolab")
                     /\ result = "CalledProcessError"
               /\ Succeeded("pip_install") =>
                     /\ Len(OfKind("helper_install")) = 1
                     /\ Failed("helper_install") =>
                           /\ Printed("Error during condacolab.install()")
                           /\ result = "Exception"
                     /\ Succeeded("helper_install") => result = "None"

C8_Witness ==
    /\ op = "install_conda"
    /\ pc = "done"
    /\ atCall[1] = {}
    /\ Failed("helper_install")
    /\ result = "Exception"

\* fix_conda removed the binary and the reinstall returned.
Reinstalled ==
    \E i \in 1..Len(log) :
        /\ log[i].kind = "sudo_rm"
        /\ log[i].rc = 0
        /\ \E j \in (i + 1)..Len(log) :
              \/ log[j] = Msg("Conda is already installed")
              \/ log[j] = Msg("Conda installation complete")

(***************************************************************************)
(* C9: once fix_conda has removed the broken binary and the reinstall has  *)
(* completed, the run returns normally whatever the final verification     *)
(* finds.                                                                  *)
(***************************************************************************)
C9_VerifyNeverRaises ==
    (op = "fix_conda" /\ pc = "done" /\ Reinstalled) => result = "None"

(***************************************************************************)
(* C10: fix_conda issues the removal only after finding conda and seeing   *)
(* 'conda --version' fail; with conda absent it goes through install_conda *)
(* and removes nothing; with a successful check it returns having run      *)
(* nothing else; the removal precedes every command of the reinstall, and  *)
(* a failed removal ends the run.                                          *)
(***************************************************************************)
C10_RemovalOnlyWhenBroken ==
    op = "fix_conda" =>
        /\ \A i \in 1..Len(CmdLog) :
              CmdLog[i].kind = "sudo_rm" =>
                  /\ atCall[1] # {}
                  /\ i = 2
                  /\ CmdLog[1].kind = "conda_version"
                  /\ CmdLog[1].rc # 0
                  /\ CmdLog[i].path \in atCall[1]
                  /\ CmdLog[i].rc # 0 =>
                        /\ Len(CmdLog) = i
                        /\ pc = "done"
                        /\ result = "CalledProcessError"
        /\ atCall[1] = {} =>
              /\ OfKind("sudo_rm") = <<>>
              /\ pc = "done" => OfKind("pip_install") # <<>>
        /\ (atCall[1] # {} /\ CmdLog # <<>>) =>
              /\ CmdLog[1].kind = "conda_version"
              /\ CmdLog[1].rc = 0 =>
                    /\ Len(CmdLog) = 1
                    /\ pc = "done"
                    /\ result = "None"
              /\ CmdLog[1].rc # 0 =>
                    \A i \in 2..Len(CmdLog) :
                        CmdLog[i].kind \in {"pip_install", "helper_install",
                                            "conda_version"}
                            => (CmdLog[2].kind = "sudo_rm" /\ CmdLog[2].rc = 0 /\ i > 2)

C10_Witness ==
    /\ op = "fix_conda"
    /\ pc = "done"
    /\ Succeeded("sudo_rm")
    /\ Succeeded("helper_install")
    /\ result = "None"

====
